---- MODULE Spec2Model ----
(***************************************************************************)
(* A model of morikuni/goimportfmt: the import extractor, the classifier   *)
(* and grouper, the canonical block renderer, the splice writer            *)
(* (importInsertWriter) and the two commands under cmd/goimportfmt.        *)
(*                                                                         *)
(* Text is modelled as a sequence of tokens: the non-newline content of a  *)
(* line is one token and the newline byte is the token NL.  Import paths   *)
(* and module paths are sequences of characters compared byte-wise.        *)
(***************************************************************************)
EXTENDS Integers, Sequences, FiniteSets, TLC

VARIABLES
    \* ---- classifier runs (SpecClassify)
    cpc, cp, cm, libGroup, cmdGroup,
    \* ---- grouper and block renderer runs (SpecGroup)
    gpc, gis, gmod, ggp, gblock, appDoc, appBlocks,
    \* ---- removeImports / loadImports runs (SpecRemove)
    rpc, rtree, rout, rimports,
    \* ---- one run of the command on a file (Spec)
    pc, cmd, writeBack, modulePath, run, file, orig, out1, stdout,
    is, lineInsert, imports, rendered, stream, passed,
    count, buf, dst, nBlock, injAt, result

cvars == <<cpc, cp, cm, libGroup, cmdGroup>>
gvars == <<gpc, gis, gmod, ggp, gblock, appDoc, appBlocks>>
rvars == <<rpc, rtree, rout, rimports>>
wvars == <<is, lineInsert, imports, rendered, stream, passed,
           count, buf, dst, nBlock, injAt>>
mvars == <<pc, cmd, writeBack, modulePath, run, file, orig, out1, stdout, result>>
vars == <<cvars, gvars, rvars, wvars, mvars>>

----------------------------------------------------------------------------
(* Bounds of the model.                                                    *)

MaxPathLen == 3
MaxImports == 3
\* removeImports runs: import declarations, specs in one, other declarations
MaxImportDecls == 2
MaxSpecs == 2
MaxFuncDecls == 1
\* command runs: lines between the package clause and the first import,
\* import declarations, other declarations, lines of a body, tokens handed
\* to one Write, runs of the command on the same file
MaxGap == 2
MaxFileImportDecls == 1
MaxFileFuncDecls == 1
MaxBody == 1
MaxChunk == 3
MaxRuns == 2

----------------------------------------------------------------------------
(* Characters and strings.  A Go string is a sequence of bytes; the model  *)
(* keeps three of them: a letter, the first letter of the module path and  *)
(* the dot.                                                                *)

Chars == {"a", "m", "."}

Ord(c) == CASE c = "." -> 46
            [] c = "a" -> 97
            [] c = "m" -> 109

SeqsUpTo(S, n) == UNION {[1..k -> S] : k \in 0..n}

Strings == SeqsUpTo(Chars, MaxPathLen)

\* strings.HasPrefix(s, prefix)
HasPrefix(s, prefix) ==
    /\ Len(prefix) <= Len(s)
    /\ \A k \in 1..Len(prefix) : s[k] = prefix[k]

\* strings.Contains(s, ".")
ContainsDot(s) == \E k \in 1..Len(s) : s[k] = "."

\* Go's s < t on strings: byte-wise lexicographic order.
RECURSIVE StrLess(_, _)
StrLess(s, t) ==
    IF t = <<>> THEN FALSE
    ELSE IF s = <<>> THEN TRUE
    ELSE IF Ord(Head(s)) < Ord(Head(t)) THEN TRUE
    ELSE IF Ord(Head(s)) > Ord(Head(t)) THEN FALSE
    ELSE StrLess(Tail(s), Tail(t))

----------------------------------------------------------------------------
(* The classifiers.                                                        *)

\* defaultFormatFunc's groupOfImport (the library).
LibGroupOfImport(pkg, mod) ==
    IF mod # <<>> /\ HasPrefix(pkg, mod) THEN 2
    ELSE IF ContainsDot(pkg) THEN 1
    ELSE 0

\* groupOfImport of the command.
CmdGroupOfImport(pkg, mod) ==
    IF ~ContainsDot(pkg) THEN 0
    ELSE IF mod # <<>> /\ HasPrefix(pkg, mod) THEN 2
    ELSE 1

----------------------------------------------------------------------------
(* Import records and text tokens.                                         *)

\* type Import struct { Name; Path; Docs; Comment }
Import(name, path, docs, comment) ==
    [Name |-> name, Path |-> path, Docs |-> docs, Comment |-> comment]

NoImp == Import("", <<>>, <<>>, "")

\* One token of text: the content of a line (k says which line it is, v
\* carries what the line holds), or the newline byte.
Tok(k, v) == [k |-> k, v |-> v]

NL == Tok("\n", NoImp)

Line(k) == <<Tok(k, NoImp), NL>>

BlankLine == <<NL>>

\* bytes.Count(bs, []byte{'\n'})
RECURSIVE CountNL(_)
CountNL(bs) ==
    IF bs = <<>> THEN 0
    ELSE (IF Head(bs) = NL THEN 1 ELSE 0) + CountNL(Tail(bs))

Front(s) == SubSeq(s, 1, Len(s) - 1)

Last(s) == s[Len(s)]

----------------------------------------------------------------------------
(* The grouper: defaultFormatFunc, GroupedImports.Add, sort.Slice.         *)

\* GroupedImports.Add; a GroupedImports is a map from group-id to a
\* sequence of imports, modelled as a function on the keys present.
Add(gp, n, i) ==
    IF n \in DOMAIN gp THEN [gp EXCEPT ![n] = Append(@, i)]
    ELSE [g \in DOMAIN gp \cup {n} |-> IF g = n THEN <<i>> ELSE gp[g]]

EmptyGroups == [g \in {} |-> <<>>]

\* One step of the insertion sort sort.Slice runs on a short slice: x moves
\* left past every element greater than it.
RECURSIVE InsertByPath(_, _)
InsertByPath(sorted, x) ==
    IF sorted = <<>> THEN <<x>>
    ELSE IF StrLess(x.Path, Last(sorted).Path)
         THEN Append(InsertByPath(Front(sorted), x), Last(sorted))
         ELSE Append(sorted, x)

\* A sort that leaves the slice as it is.
NoSortByPath(s) == s

\* sort.Slice(is, func(i, j) { return is[i].Path < is[j].Path })
RECURSIVE SortByPath(_)
SortByPath(s) ==
    IF s = <<>> THEN <<>>
    ELSE InsertByPath(SortByPath(Front(s)), Last(s))

RECURSIVE AddAll(_, _, _)
AddAll(gp, mod, s) ==
    IF s = <<>> THEN gp
    ELSE AddAll(Add(gp, LibGroupOfImport(Head(s).Path, mod), Head(s)), mod, Tail(s))

\* defaultFormatFunc(ctx, is)
DefaultFormatFunc(mod, s) ==
    LET gi == AddAll(EmptyGroups, mod, s)
    IN  [g \in DOMAIN gi |-> SortByPath(gi[g])]

----------------------------------------------------------------------------
(* The canonical block renderer: GroupedImports.WriteTo.                   *)

Min(S) == CHOOSE x \in S : \A y \in S : x <= y

\* gs: the keys of the map, after sort.Ints(gs).
RECURSIVE SortedKeys(_)
SortedKeys(S) ==
    IF S = {} THEN <<>>
    ELSE <<Min(S)>> \o SortedKeys(S \ {Min(S)})

RECURSIVE DocLines(_)
DocLines(ds) ==
    IF ds = <<>> THEN <<>>
    ELSE <<Tok("//", Import("", <<>>, <<Head(ds)>>, "")), NL>> \o DocLines(Tail(ds))

\* One import: its doc lines, then the line of the spec (tab, the name if
\* any, the quoted path, the trailing comment if any, newline).
ImportText(i) ==
    DocLines(i.Docs) \o <<Tok("spec", Import(i.Name, i.Path, <<>>, i.Comment)), NL>>

RECURSIVE ImportsText(_)
ImportsText(s) ==
    IF s = <<>> THEN <<>>
    ELSE ImportText(Head(s)) \o ImportsText(Tail(s))

\* The loop over the groups: a blank line before every group but the first.
RECURSIVE GroupsText(_, _, _)
GroupsText(gp, gs, i) ==
    IF i > Len(gs) THEN <<>>
    ELSE (IF i > 1 THEN BlankLine ELSE <<>>)
         \o ImportsText(gp[gs[i]])
         \o GroupsText(gp, gs, i + 1)

\* GroupedImports.WriteTo(w): the text written to w.
WriteTo(gp) ==
    IF DOMAIN gp = {} THEN <<>>
    ELSE Line("import (")
         \o GroupsText(gp, SortedKeys(DOMAIN gp), 1)
         \o Line(")")

----------------------------------------------------------------------------
(* The command's "sort imports" task: the order in which it prints.        *)

HasDocs(i) == Len(i.Docs) # 0

NoDocs(i) == Len(i.Docs) = 0

\* sort.Slice(imports, ...) and then the split on len(i.Docs).
AppDocImports(s) == SelectSeq(SortByPath(s), HasDocs)

AppNonDocImports(s) == SelectSeq(SortByPath(s), NoDocs)

RECURSIVE AppGroups(_, _, _)
AppGroups(groups, mod, s) ==
    IF s = <<>> THEN groups
    ELSE AppGroups(Add(groups, CmdGroupOfImport(Head(s).Path, mod), Head(s)),
                   mod, Tail(s))

\* blocks: the groups of the imports without docs, in ascending group-id.
AppBlocks(mod, s) ==
    LET groups == AppGroups(EmptyGroups, mod, AppNonDocImports(s))
        gs == SortedKeys(DOMAIN groups)
    IN  [k \in 1..Len(gs) |-> groups[gs[k]]]

----------------------------------------------------------------------------
(* The parsed file (go/parser, go/ast) at the granularity of lines.  A     *)
(* comment group is a pointer: id is the line it starts on (0 is nil).     *)

CG(id, list) == [id |-> id, List |-> list]

NilCG == CG(0, <<>>)

\* ast.ImportSpec
ImportSpec(name, path, doc, comment) ==
    [Name |-> name, Path |-> path, Doc |-> doc, Comment |-> comment]

\* ast.GenDecl with Tok = IMPORT, or ast.FuncDecl: Line is the line of
\* Pos() (the keyword), End the last line.
Decl(tok, line, end, doc, specs) ==
    [Tok |-> tok, Line |-> line, End |-> end, Doc |-> doc, Specs |-> specs]

AsLine(cur) ==
    IF cur = <<>> THEN Tok("", NoImp)
    ELSE IF Len(cur) = 1 THEN cur[1]
    ELSE Tok("bad", NoImp)

\* The lines of a text: what stands between two newlines.
RECURSIVE SplitLines(_, _)
SplitLines(text, cur) ==
    IF text = <<>> THEN (IF cur = <<>> THEN <<>> ELSE <<AsLine(cur)>>)
    ELSE IF Head(text) = NL THEN <<AsLine(cur)>> \o SplitLines(Tail(text), <<>>)
    ELSE SplitLines(Tail(text), Append(cur, Head(text)))

ParseStart ==
    [ok |-> TRUE, mode |-> "head", Pkg |-> 0, Decls |-> <<>>, Comments |-> <<>>,
     open |-> FALSE, inFunc |-> FALSE]

\* The lead comment of the next token: the comment group that ends on the
\* line before it.
LeadComment(st) == IF st.open THEN Last(st.Comments) ELSE NilCG

TrailingCG(t, ln) == IF t.v.Comment # "" THEN CG(ln, <<t.v.Comment>>) ELSE NilCG

WithTrailing(comments, t, ln) ==
    IF t.v.Comment # "" THEN Append(comments, TrailingCG(t, ln)) ELSE comments

ParseError(st) == [st EXCEPT !.ok = FALSE]

\* One line of the source read by the parser.
ParseLine(st, ln, t) ==
    LET nd == Len(st.Decls)
        nc == Len(st.Comments)
    IN
    CASE t.k = "" ->
           [st EXCEPT !.open = FALSE, !.inFunc = FALSE]
      [] t.k = "//" ->
           IF st.open
           THEN [st EXCEPT !.Comments[nc].List = Append(@, t.v.Docs[1]),
                           !.inFunc = FALSE]
           ELSE [st EXCEPT !.Comments = Append(@, CG(ln, t.v.Docs)),
                           !.open = TRUE, !.inFunc = FALSE]
      [] t.k = "package" ->
           IF st.mode = "head"
           THEN [st EXCEPT !.mode = "imports", !.Pkg = ln, !.open = FALSE]
           ELSE ParseError(st)
      [] t.k = "import" ->
           IF st.mode = "imports"
           THEN [st EXCEPT
                   !.Decls = Append(@, Decl("import", ln, ln, LeadComment(st),
                                 <<ImportSpec(t.v.Name, t.v.Path, NilCG,
                                              TrailingCG(t, ln))>>)),
                   !.Comments = WithTrailing(@, t, ln),
                   !.open = FALSE]
           ELSE ParseError(st)
      [] t.k = "import (" ->
           IF st.mode = "imports"
           THEN [st EXCEPT
                   !.Decls = Append(@, Decl("import", ln, ln, LeadComment(st), <<>>)),
                   !.mode = "block", !.open = FALSE]
           ELSE ParseError(st)
      [] t.k = "spec" ->
           IF st.mode = "block"
           THEN [st EXCEPT
                   !.Decls[nd].Specs = Append(@, ImportSpec(t.v.Name, t.v.Path,
                                            LeadComment(st), TrailingCG(t, ln))),
                   !.Comments = WithTrailing(@, t, ln),
                   !.open = FALSE]
           ELSE ParseError(st)
      [] t.k = ")" ->
           IF st.mode = "block"
           THEN [st EXCEPT !.Decls[nd].End = ln, !.mode = "imports", !.open = FALSE]
           ELSE ParseError(st)
      [] t.k = "func" ->
           IF st.mode \in {"imports", "decls"}
           THEN [st EXCEPT
                   !.Decls = Append(@, Decl("func", ln, ln, LeadComment(st), <<>>)),
                   !.mode = "decls", !.open = FALSE, !.inFunc = TRUE]
           ELSE ParseError(st)
      [] t.k = "body" ->
           IF st.inFunc
           THEN [st EXCEPT !.Decls[nd].End = ln]
           ELSE ParseError(st)
      [] OTHER -> ParseError(st)

RECURSIVE ParseLines(_, _, _)
ParseLines(lines, ln, st) ==
    IF ~st.ok THEN st
    ELSE IF ln > Len(lines)
         THEN [st EXCEPT !.ok = st.mode \in {"imports", "decls"}]
         ELSE ParseLines(lines, ln + 1, ParseLine(st, ln, lines[ln]))

\* parser.ParseFile(fs, "", src, parser.ParseComments): ok is FALSE on a
\* syntax error; imports must stand before the other declarations.
ParseFile(text) == ParseLines(SplitLines(text, <<>>), 1, ParseStart)

IsImportDecl(d) == d.Tok = "import"

NotImportDecl(d) == d.Tok # "import"

----------------------------------------------------------------------------
(* The import extractor: loadImports and removeImports.                    *)

\* The text of a comment group's comments, one after the other (+=).
RECURSIVE JoinText(_)
JoinText(list) ==
    IF list = <<>> THEN ""
    ELSE IF Len(list) = 1 THEN list[1]
    ELSE list[1] \o JoinText(Tail(list))

\* The loop over gd.Specs: docs holds gd.Doc's comments for the first spec
\* and nil for every other.
RECURSIVE LoadSpecs(_, _, _)
LoadSpecs(specs, k, docs) ==
    IF k > Len(specs) THEN <<>>
    ELSE LET sp == specs[k]
             ds == IF k > 1 THEN <<>> ELSE docs
         IN  <<Import(sp.Name, sp.Path, ds \o sp.Doc.List, JoinText(sp.Comment.List))>>
             \o LoadSpecs(specs, k + 1, docs)

\* loadImports(f)
RECURSIVE LoadImports(_)
LoadImports(decls) ==
    IF decls = <<>> THEN <<>>
    ELSE (IF IsImportDecl(Head(decls))
          THEN LoadSpecs(Head(decls).Specs, 1, Head(decls).Doc.List)
          ELSE <<>>)
         \o LoadImports(Tail(decls))

RECURSIVE SpecComments(_)
SpecComments(specs) ==
    IF specs = <<>> THEN <<>>
    ELSE (IF Head(specs).Doc # NilCG THEN <<Head(specs).Doc>> ELSE <<>>)
         \o (IF Head(specs).Comment # NilCG THEN <<Head(specs).Comment>> ELSE <<>>)
         \o SpecComments(Tail(specs))

\* comments: gd.Doc, and every spec's Doc and Comment, when not nil.
DeclComments(gd) ==
    (IF gd.Doc # NilCG THEN <<gd.Doc>> ELSE <<>>) \o SpecComments(gd.Specs)

\* The inner loop over f.Comments: every c2 that is c1 is cut out.
RECURSIVE CutComment(_, _)
CutComment(comments, c1) ==
    IF comments = <<>> THEN <<>>
    ELSE (IF Head(comments).id = c1.id THEN <<>> ELSE <<Head(comments)>>)
         \o CutComment(Tail(comments), c1)

RECURSIVE CutComments(_, _)
CutComments(comments, cs) ==
    IF cs = <<>> THEN comments
    ELSE CutComments(CutComment(comments, Head(cs)), Tail(cs))

\* The index after a declaration was cut out, with the i-- left out.
IndexAfterCutNoDecrement(i) == i + 1

\* The index the loop goes on with after f.Decls[i] was cut out: i--, then
\* the loop's i++.
IndexAfterCut(i) == i

\* The loop of removeImports from index i on (indices from 1).
RECURSIVE RemoveLoop(_, _, _, _)
RemoveLoop(decls, comments, i, firstImportLine) ==
    IF i > Len(decls)
    THEN [Line |-> firstImportLine, Decls |-> decls, Comments |-> comments]
    ELSE IF ~IsImportDecl(decls[i])
         THEN RemoveLoop(decls, comments, i + 1, firstImportLine)
         ELSE RemoveLoop(SubSeq(decls, 1, i - 1) \o SubSeq(decls, i + 1, Len(decls)),
                         CutComments(comments, DeclComments(decls[i])),
                         IndexAfterCut(i),
                         IF firstImportLine = 0 THEN decls[i].Line
                         ELSE firstImportLine)

\* removeImports(fs, f): the first import line and the tree it leaves.
RemoveImports(f) == RemoveLoop(f.Decls, f.Comments, 1, 0)

----------------------------------------------------------------------------
(* The renderer (go/format) at the granularity of lines: what is left of   *)
(* the tree is printed in the order of its positions, runs of blank lines  *)
(* collapsed to one.                                                       *)

RECURSIVE Repeat(_, _)
Repeat(text, n) == IF n <= 0 THEN <<>> ELSE text \o Repeat(text, n - 1)

RECURSIVE SpecsText(_)
SpecsText(specs) ==
    IF specs = <<>> THEN <<>>
    ELSE <<Tok("spec", Import(Head(specs).Name, Head(specs).Path, <<>>,
                              JoinText(Head(specs).Comment.List))), NL>>
         \o SpecsText(Tail(specs))

DeclText(d) ==
    IF IsImportDecl(d)
    THEN Line("import (") \o SpecsText(d.Specs) \o Line(")")
    ELSE Line("func") \o Repeat(Line("body"), d.End - d.Line)

Item(kind, start, end, text, forced) ==
    [kind |-> kind, start |-> start, end |-> end, text |-> text, forced |-> forced]

RECURSIVE DeclItems(_, _, _)
DeclItems(decls, k, first) ==
    IF k > Len(decls) THEN <<>>
    ELSE <<Item("decl", decls[k].Line, decls[k].End, DeclText(decls[k]),
                first /\ decls[k].Doc = NilCG)>>
         \o DeclItems(decls, k + 1, FALSE)

IsDocOf(decls, c) == \E k \in 1..Len(decls) : decls[k].Doc.id = c.id

RECURSIVE CommentItems(_, _)
CommentItems(comments, decls) ==
    IF comments = <<>> THEN <<>>
    ELSE <<Item("cg", Head(comments).id,
                Head(comments).id + Len(Head(comments).List) - 1,
                DocLines(Head(comments).List), IsDocOf(decls, Head(comments)))>>
         \o CommentItems(Tail(comments), decls)

RECURSIVE MergeItems(_, _)
MergeItems(a, b) ==
    IF a = <<>> THEN b
    ELSE IF b = <<>> THEN a
    ELSE IF Head(b).start < Head(a).start
         THEN <<Head(b)>> \o MergeItems(a, Tail(b))
         ELSE <<Head(a)>> \o MergeItems(Tail(a), b)

\* A blank line stands before an item when the source had one there, before
\* the first declaration, and before a documented declaration.
RECURSIVE ItemsText(_, _)
ItemsText(items, k) ==
    IF k > Len(items) THEN <<>>
    ELSE (IF k > 1 /\ (items[k].forced \/ items[k].start - items[k - 1].end >= 2)
          THEN BlankLine ELSE <<>>)
         \o items[k].text
         \o ItemsText(items, k + 1)

\* format.Node(w, fs, f): the text the printer writes.
Render(pkg, decls, comments) ==
    ItemsText(MergeItems(<<Item("pkg", pkg, pkg, Line("package"), FALSE)>>
                             \o DeclItems(decls, 1, TRUE),
                         CommentItems(comments, decls)), 1)

----------------------------------------------------------------------------
(* Source files.                                                           *)

PkgLine == Line("package")

CommentLine == <<Tok("//", Import("", <<>>, <<"d">>, "")), NL>>

\* The path of the k-th spec of a declaration: not in sorted order.
SpecPath(k) == IF k = 1 THEN <<"m">> ELSE IF k = 2 THEN <<"a">> ELSE <<"a", ".">>

Trailing(commented) == IF commented THEN "c" ELSE ""

RECURSIVE SpecsLines(_, _)
SpecsLines(flags, k) ==
    IF k > Len(flags) THEN <<>>
    ELSE (IF flags[k] THEN CommentLine ELSE <<>>)
         \o <<Tok("spec", Import("", SpecPath(k), <<>>, Trailing(flags[k]))), NL>>
         \o SpecsLines(flags, k + 1)

\* An import declaration: with a doc comment or not, in parentheses or not,
\* each spec with a doc and a trailing comment or with neither, with a
\* comment of its own before the closing parenthesis or not.
ImportShape(doc, paren, specs, floating) ==
    [doc |-> doc, paren |-> paren, specs |-> specs, floating |-> floating]

\* Which of n specs have comments: none, all, or the first one.
SpecFlags(n) ==
    {[k \in 1..n |-> FALSE], [k \in 1..n |-> TRUE], [k \in 1..n |-> k = 1]}

\* A declaration in parentheses has a doc comment, or a comment of its own
\* inside, or neither.
ImportShapes ==
    { ImportShape(d, FALSE, <<c>>, FALSE) : d \in BOOLEAN, c \in BOOLEAN }
    \cup { ImportShape(df[1], TRUE, cs, df[2]) :
             df \in {<<FALSE, FALSE>>, <<TRUE, FALSE>>, <<FALSE, TRUE>>},
             cs \in UNION {SpecFlags(n) : n \in 1..MaxSpecs} }

ImportDeclLines(sh) ==
    (IF sh.doc THEN CommentLine ELSE <<>>)
    \o (IF sh.paren
        THEN Line("import (")
             \o SpecsLines(sh.specs, 1)
             \o (IF sh.floating THEN BlankLine \o CommentLine ELSE <<>>)
             \o Line(")")
        ELSE <<Tok("import", Import("", SpecPath(1), <<>>, Trailing(sh.specs[1]))), NL>>)

FuncShape(doc, body, blank) == [doc |-> doc, body |-> body, blank |-> blank]

FuncDeclLines(sh) ==
    (IF sh.blank THEN BlankLine ELSE <<>>)
    \o (IF sh.doc THEN CommentLine ELSE <<>>)
    \o Line("func")
    \o Repeat(Line("body"), sh.body)

RECURSIVE ImportsLines(_)
ImportsLines(shs) ==
    IF shs = <<>> THEN <<>>
    ELSE ImportDeclLines(Head(shs)) \o ImportsLines(Tail(shs))

RECURSIVE FuncsLines(_)
FuncsLines(shs) ==
    IF shs = <<>> THEN <<>>
    ELSE FuncDeclLines(Head(shs)) \o FuncsLines(Tail(shs))

RECURSIVE Flatten(_)
Flatten(ss) == IF ss = <<>> THEN <<>> ELSE Head(ss) \o Flatten(Tail(ss))

\* The sources removeImports is run on: import declarations, then func
\* declarations with a doc comment.
TreeFuncShapes == { FuncShape(TRUE, 0, TRUE) }

TreeSource(is0, fs0) ==
    PkgLine \o BlankLine \o ImportsLines(is0) \o FuncsLines(fs0)

\* The sources the command is run on.
FileImportShapes ==
    { ImportShape(FALSE, FALSE, <<FALSE>>, FALSE),
      ImportShape(FALSE, TRUE, <<FALSE, FALSE>>, FALSE),
      ImportShape(FALSE, TRUE, <<TRUE>>, TRUE) }

FileFuncShapes == { FuncShape(FALSE, b, TRUE) : b \in {0, MaxBody} }

Gaps == { Flatten(g) : g \in SeqsUpTo({BlankLine, CommentLine}, MaxGap) }

\* A source of the command: blank and comment lines after the package
\* clause, import declarations, func declarations.
FileSource(g, is0, fs0) == PkgLine \o g \o ImportsLines(is0) \o FuncsLines(fs0)

\* Sources the parser rejects: an empty file, a file with no package clause.
BadSources == {<<>>, Line("func")}

----------------------------------------------------------------------------
(* The splice writer: importInsertWriter.Write.                            *)

\* The first test of Write with > for >=.
PassThroughStrict(c, l) == c > l

\* if w.count >= w.lineInsert: the write goes straight to the destination.
PassThrough(c, l) == c >= l

\* The loop that looks for the place of the block in w.buf: idx (from 0)
\* ends one past the newline at which count+1 >= lineInsert, or at len(buf).
RECURSIVE ScanSplice(_, _, _, _)
ScanSplice(b, idx, cnt, l) ==
    IF idx >= Len(b) THEN idx
    ELSE IF b[idx + 1] # NL THEN ScanSplice(b, idx + 1, cnt, l)
    ELSE IF (cnt + 1) + 1 >= l THEN idx + 1
    ELSE ScanSplice(b, idx + 1, cnt + 1, l)

SpliceIndex(b, l) == ScanSplice(b, 0, 0, l)

Writer(l, c, b, d, n, at) ==
    [lineInsert |-> l, count |-> c, buf |-> b, dst |-> d, nBlock |-> n,
     injAt |-> at, err |-> FALSE]

\* The writes to the destination one call of Write makes, by number: none
\* while it buffers, one when it passes through, four when it splices.
FailPoints(w, bs) ==
    IF PassThrough(w.count, w.lineInsert) THEN {0, 1}
    ELSE IF w.count + CountNL(bs) < w.lineInsert THEN {0}
    ELSE 0..4

\* Write(bs) on writer w holding the grouped imports gp; failAt is the write
\* to the destination that returns an error (0: none does).
WriteCall(w, gp, bs, failAt) ==
    IF PassThrough(w.count, w.lineInsert)
    THEN IF failAt = 1 THEN [w EXCEPT !.err = TRUE]
         ELSE [w EXCEPT !.dst = @ \o bs]
    ELSE LET c2 == w.count + CountNL(bs)
             b2 == w.buf \o bs
             w1 == [w EXCEPT !.count = c2, !.buf = b2]
             idx == SpliceIndex(b2, w.lineInsert)
             d1 == w.dst \o SubSeq(b2, 1, idx)
             d2 == d1 \o WriteTo(gp)
             d3 == d2 \o <<NL>>
             d4 == d3 \o SubSeq(b2, idx + 1, Len(b2))
         IN  IF c2 < w.lineInsert THEN w1
             ELSE IF failAt = 1 THEN [w1 EXCEPT !.err = TRUE]
             ELSE IF failAt = 2 THEN [w1 EXCEPT !.dst = d1, !.err = TRUE]
             ELSE IF failAt = 3
                  THEN [w1 EXCEPT !.dst = d2, !.nBlock = @ + 1, !.injAt = idx,
                                  !.err = TRUE]
             ELSE IF failAt = 4
                  THEN [w1 EXCEPT !.dst = d3, !.nBlock = @ + 1, !.injAt = idx,
                                  !.err = TRUE]
             ELSE [w1 EXCEPT !.dst = d4, !.nBlock = @ + 1, !.injAt = idx,
                             !.buf = <<>>]

----------------------------------------------------------------------------
(* Values the variables of a run hold while another kind of run is under   *)
(* check.                                                                  *)

NoTree == [ok |-> TRUE, mode |-> "head", Pkg |-> 0, Decls |-> <<>>,
           Comments |-> <<>>, open |-> FALSE, inFunc |-> FALSE]

NoRemoval == [Line |-> 0, Decls |-> <<>>, Comments |-> <<>>]

RIdle == rpc = "idle" /\ rtree = NoTree /\ rout = NoRemoval /\ rimports = <<>>

WReset ==
    /\ is = <<>> /\ lineInsert = 0 /\ imports = EmptyGroups /\ rendered = <<>>
    /\ stream = <<>> /\ passed = <<>> /\ count = 0 /\ buf = <<>> /\ dst = <<>>
    /\ nBlock = 0 /\ injAt = 0

MIdle ==
    /\ pc = "idle" /\ cmd = "main" /\ writeBack = FALSE /\ modulePath = <<>>
    /\ run = 1 /\ file = <<>> /\ orig = <<>> /\ out1 = <<>> /\ stdout = <<>>
    /\ result = <<>>
    /\ WReset

CIdle ==
    /\ cpc = "idle" /\ cp = <<>> /\ cm = <<>> /\ libGroup = 0 /\ cmdGroup = 0

GIdle ==
    /\ gpc = "idle" /\ gis = <<>> /\ gmod = <<>> /\ ggp = EmptyGroups
    /\ gblock = <<>> /\ appDoc = <<>> /\ appBlocks = <<>>

----------------------------------------------------------------------------
(* Classifier runs: both groupOfImport functions applied to a path and a   *)
(* module path.                                                            *)

ClassifyInit ==
    /\ cpc = "start"
    /\ cp \in Strings
    /\ cm \in Strings
    /\ libGroup = 0
    /\ cmdGroup = 0

Classify ==
    /\ cpc = "start"
    /\ libGroup' = LibGroupOfImport(cp, cm)
    /\ cmdGroup' = CmdGroupOfImport(cp, cm)
    /\ cpc' = "done"
    /\ UNCHANGED <<cp, cm>>

----------------------------------------------------------------------------
(* Grouper runs: defaultFormatFunc and WriteTo of the library, and the     *)
(* print order of the command, applied to a sequence of extracted imports. *)

GroupPaths == {<<"a">>, <<"m">>, <<"m", "a">>, <<"a", ".">>}

GroupModules == {<<>>, <<"m">>}

\* What an import carries beside its path: nothing, a name, a doc comment
\* or a trailing comment.
Decorations ==
    { Import("", <<>>, <<>>, ""), Import("n", <<>>, <<>>, ""),
      Import("", <<>>, <<"d">>, ""), Import("", <<>>, <<>>, "c") }

GroupImports == { [d EXCEPT !.Path = p] : p \in GroupPaths, d \in Decorations }

GroupInit ==
    /\ gpc = "start"
    /\ gis \in SeqsUpTo(GroupImports, MaxImports)
    /\ gmod \in GroupModules
    /\ ggp = EmptyGroups
    /\ gblock = <<>>
    /\ appDoc = <<>>
    /\ appBlocks = <<>>

\* conf.formatFunc(ctx, is), and the block WriteTo makes of its result.
Format ==
    /\ gpc = "start"
    /\ ggp' = DefaultFormatFunc(gmod, gis)
    /\ gblock' = WriteTo(ggp')
    /\ gpc' = "lib"
    /\ UNCHANGED <<gis, gmod, appDoc, appBlocks>>

\* The command's sort, split and grouping of the same imports.
AppSortImports ==
    /\ gpc = "lib"
    /\ appDoc' = AppDocImports(gis)
    /\ appBlocks' = AppBlocks(gmod, gis)
    /\ gpc' = "done"
    /\ UNCHANGED <<gis, gmod, ggp, gblock>>

----------------------------------------------------------------------------
(* Extractor runs: loadImports and removeImports applied to a parsed file. *)

RemoveInit ==
    /\ rpc = "start"
    /\ \E is0 \in SeqsUpTo(ImportShapes, MaxImportDecls) :
         \E fs0 \in SeqsUpTo(TreeFuncShapes, MaxFuncDecls) :
           rtree = ParseFile(TreeSource(is0, fs0))
    /\ rout = NoRemoval
    /\ rimports = <<>>

\* Process, lines 28 to 36: loadImports(f), then removeImports(fs, f).
Extract ==
    /\ rpc = "start"
    /\ rtree.ok
    /\ rimports' = LoadImports(rtree.Decls)
    /\ rout' = RemoveImports(rtree)
    /\ rpc' = "done"
    /\ UNCHANGED rtree

----------------------------------------------------------------------------
(* Runs of the command on a file.  cmd "main" is the command built on the  *)
(* library (Process); cmd "app" is the command of load, sort and write     *)
(* tasks.                                                                  *)

MainInit ==
    /\ pc = "start"
    /\ cmd \in {"main", "app"}
    /\ writeBack \in BOOLEAN
    /\ modulePath \in GroupModules
    /\ run = 1
    /\ \/ \E g \in Gaps :
            \E is0 \in SeqsUpTo(FileImportShapes, MaxFileImportDecls) :
              \E fs0 \in SeqsUpTo(FileFuncShapes, MaxFileFuncDecls) :
                file = FileSource(g, is0, fs0)
       \/ file \in BadSources
    /\ orig = file
    /\ out1 = <<>>
    /\ stdout = <<>>
    /\ result = <<>>
    /\ WReset

\* Process, lines 22 to 49: the file is parsed, its imports are loaded and
\* removed from the tree, and the writer is set up; the text format.Node
\* will print is stream.  A syntax error ends the run.
ProcessParse ==
    /\ pc = "start" /\ cmd = "main"
    /\ LET f == ParseFile(file)
           rm == RemoveImports(f)
       IN  IF ~f.ok
           THEN /\ pc' = "parse_failed"
                /\ UNCHANGED wvars
           ELSE /\ pc' = "writing"
                /\ is' = LoadImports(f.Decls)
                /\ lineInsert' = rm.Line
                /\ imports' = DefaultFormatFunc(modulePath, is')
                /\ rendered' = Render(f.Pkg, rm.Decls, rm.Comments)
                /\ stream' = rendered'
                /\ passed' = <<>>
                /\ count' = 0 /\ buf' = <<>> /\ dst' = <<>>
                /\ nBlock' = 0 /\ injAt' = 0
    /\ UNCHANGED <<cmd, writeBack, modulePath, run, file, orig, out1, stdout, result>>

\* The process ends: what it held in memory is gone.
Exit ==
    /\ is' = <<>> /\ lineInsert' = 0 /\ imports' = EmptyGroups /\ rendered' = <<>>
    /\ stream' = <<>> /\ passed' = <<>> /\ count' = 0 /\ buf' = <<>> /\ dst' = <<>>
    /\ nBlock' = 0 /\ injAt' = 0

\* One call of Write by the printer, with the next n tokens of its text,
\* in which no write to the destination fails.
Write(n) ==
    /\ pc = "writing" /\ n <= Len(stream)
    /\ LET bs == SubSeq(stream, 1, n)
           w == Writer(lineInsert, count, buf, dst, nBlock, injAt)
           w2 == WriteCall(w, imports, bs, 0)
       IN  /\ pc' = "writing"
           /\ count' = w2.count /\ buf' = w2.buf /\ dst' = w2.dst
           /\ nBlock' = w2.nBlock /\ injAt' = w2.injAt
           /\ passed' = passed \o bs
           /\ stream' = SubSeq(stream, n + 1, Len(stream))
    /\ UNCHANGED <<is, lineInsert, imports, rendered>>
    /\ UNCHANGED <<cmd, writeBack, modulePath, run, file, orig, out1, stdout, result>>

\* A call of Write in which a write to the destination fails: Write
\* returns the error, format.Node and Process return it, and main panics
\* (lines 52 to 54).
WriteFails ==
    /\ pc = "writing"
    /\ \E n \in 1..MaxChunk :
         /\ n <= Len(stream)
         /\ LET bs == SubSeq(stream, 1, n)
                w == Writer(lineInsert, count, buf, dst, nBlock, injAt)
            IN  \E failAt \in FailPoints(w, bs) \ {0} :
                  WriteCall(w, imports, bs, failAt).err
    /\ pc' = "write_failed"
    /\ Exit
    /\ UNCHANGED <<cmd, writeBack, modulePath, run, file, orig, out1, stdout, result>>

\* format.Node has printed everything: Process returns nil.
ProcessReturn ==
    /\ pc = "writing" /\ stream = <<>>
    /\ pc' = "processed"
    /\ UNCHANGED wvars
    /\ UNCHANGED <<cmd, writeBack, modulePath, run, file, orig, out1, stdout, result>>

\* main creates the file before Process has returned.
CanCreateEarly == pc \in {"writing", "processed"}

\* main, lines 51 to 57: the file is created once Process returned no error.
CanCreate == pc = "processed"

\* os.Create(filename): the file is truncated, or the call fails.
MainCreate(ok) ==
    /\ cmd = "main" /\ writeBack /\ CanCreate
    /\ IF ok THEN pc' = "created" /\ file' = <<>>
       ELSE pc' = "create_failed" /\ file' = file
    /\ UNCHANGED wvars
    /\ UNCHANGED <<cmd, writeBack, modulePath, run, orig, out1, stdout, result>>

\* What io.Copy may have written when it returns: nothing or a part of the
\* buffer (an error), or all of it.
CopyPoints(d) == {0, Len(d) \div 2, Len(d)}

\* io.Copy(f, buf): the whole buffer, or on an error its first k tokens.
MainCopy(k) ==
    /\ cmd = "main" /\ pc = "created" /\ k \in CopyPoints(dst)
    /\ file' = SubSeq(dst, 1, k)
    /\ pc' = IF k = Len(dst) THEN "done" ELSE "copy_failed"
    /\ UNCHANGED wvars
    /\ UNCHANGED <<cmd, writeBack, modulePath, run, orig, out1, stdout, result>>

\* io.Copy(os.Stdout, buf)
MainStdout ==
    /\ cmd = "main" /\ ~writeBack /\ pc = "processed"
    /\ stdout' = dst
    /\ pc' = "done"
    /\ UNCHANGED wvars
    /\ UNCHANGED <<cmd, writeBack, modulePath, run, file, orig, out1, result>>

\* The command is run again on the file it wrote.
Rerun ==
    /\ cmd = "main" /\ pc = "done" /\ writeBack /\ run < MaxRuns
    /\ run' = run + 1
    /\ out1' = file
    /\ orig' = file
    /\ pc' = "start"
    /\ result' = <<>>
    /\ Exit
    /\ UNCHANGED <<cmd, writeBack, modulePath, file, stdout>>

\* What format.Source returns in the "sort imports" task: the text is kept
\* as one token, its content is not modelled.
Formatted == Line("formatted")

\* The "load imports" task: the file is parsed and its imports are loaded.
AppLoad ==
    /\ pc = "start" /\ cmd = "app"
    /\ LET f == ParseFile(file)
       IN  IF ~f.ok
           THEN pc' = "parse_failed" /\ is' = is
           ELSE pc' = "loaded" /\ is' = LoadImports(f.Decls)
    /\ UNCHANGED <<lineInsert, imports, rendered, stream, passed, count, buf, dst,
                   nBlock, injAt>>
    /\ UNCHANGED <<cmd, writeBack, modulePath, run, file, orig, out1, stdout, result>>

\* The "sort imports" task: nothing when there is no import; else the file
\* is written anew into result, unless format.Source fails.
AppSort(ok) ==
    /\ pc = "loaded" /\ cmd = "app"
    /\ IF Len(is) = 0 THEN pc' = "sorted" /\ result' = <<>>
       ELSE IF ok THEN pc' = "sorted" /\ result' = Formatted
       ELSE pc' = "sort_failed" /\ result' = <<>>
    /\ UNCHANGED wvars
    /\ UNCHANGED <<cmd, writeBack, modulePath, run, file, orig, out1, stdout>>

\* The "write result" task: nothing for an empty result; else the file is
\* created (or os.Create fails), or the result goes to the standard output.
AppWriteResult(ok) ==
    /\ pc = "sorted" /\ cmd = "app"
    /\ IF Len(result) = 0 THEN pc' = "done" /\ file' = file /\ stdout' = stdout
       ELSE IF writeBack /\ ok THEN pc' = "created" /\ file' = <<>> /\ stdout' = stdout
       ELSE IF writeBack THEN pc' = "create_failed" /\ file' = file /\ stdout' = stdout
       ELSE pc' = "done" /\ file' = file /\ stdout' = result
    /\ UNCHANGED wvars
    /\ UNCHANGED <<cmd, writeBack, modulePath, run, orig, out1, result>>

\* out.Write(result) on the created file.
AppWriteFile ==
    /\ pc = "created" /\ cmd = "app"
    /\ file' = result
    /\ pc' = "done"
    /\ UNCHANGED wvars
    /\ UNCHANGED <<cmd, writeBack, modulePath, run, orig, out1, stdout, result>>

Init == MainInit /\ CIdle /\ GIdle /\ RIdle

Next ==
    \/ ProcessParse /\ UNCHANGED <<cvars, gvars, rvars>>
    \/ (\E n \in 1..MaxChunk : Write(n)) /\ UNCHANGED <<cvars, gvars, rvars>>
    \/ WriteFails /\ UNCHANGED <<cvars, gvars, rvars>>
    \/ ProcessReturn /\ UNCHANGED <<cvars, gvars, rvars>>
    \/ (\E ok \in BOOLEAN : MainCreate(ok)) /\ UNCHANGED <<cvars, gvars, rvars>>
    \/ (\E k \in CopyPoints(dst) : MainCopy(k)) /\ UNCHANGED <<cvars, gvars, rvars>>
    \/ MainStdout /\ UNCHANGED <<cvars, gvars, rvars>>
    \/ Rerun /\ UNCHANGED <<cvars, gvars, rvars>>
    \/ AppLoad /\ UNCHANGED <<cvars, gvars, rvars>>
    \/ (\E ok \in BOOLEAN : AppSort(ok)) /\ UNCHANGED <<cvars, gvars, rvars>>
    \/ (\E ok \in BOOLEAN : AppWriteResult(ok)) /\ UNCHANGED <<cvars, gvars, rvars>>
    \/ AppWriteFile /\ UNCHANGED <<cvars, gvars, rvars>>

Spec == Init /\ [][Next]_vars

----------------------------------------------------------------------------
(* The specifications of the classifier, grouper and extractor runs.       *)

InitClassify == ClassifyInit /\ GIdle /\ RIdle /\ MIdle

NextClassify == Classify /\ UNCHANGED <<gvars, rvars, wvars, mvars>>

SpecClassify == InitClassify /\ [][NextClassify]_vars

InitGroup == GroupInit /\ CIdle /\ RIdle /\ MIdle

NextGroup ==
    \/ Format /\ UNCHANGED <<cvars, rvars, wvars, mvars>>
    \/ AppSortImports /\ UNCHANGED <<cvars, rvars, wvars, mvars>>

SpecGroup == InitGroup /\ [][NextGroup]_vars

InitRemove == RemoveInit /\ CIdle /\ GIdle /\ MIdle

NextRemove == Extract /\ UNCHANGED <<cvars, gvars, wvars, mvars>>

SpecRemove == InitRemove /\ [][NextRemove]_vars

----------------------------------------------------------------------------
(* Claims about the classifier.                                            *)

\* C3: a classifier's group is 2 exactly when the module path is non-empty
\* and a prefix of the path, and with an empty module path it is 0 exactly
\* when the path holds no dot.
GroupingCorrect(group, p, m) ==
    /\ (group = 2) <=> (m # <<>> /\ HasPrefix(p, m))
    /\ (m = <<>>) => ((group = 0) <=> ~ContainsDot(p))

\* C3: grouping correctness holds of the library's classifier and of the
\* command's groupOfImport, for every path and module path.
C3_GroupingCorrectBoth ==
    cpc = "done" =>
        /\ GroupingCorrect(libGroup, cp, cm)
        /\ GroupingCorrect(cmdGroup, cp, cm)

----------------------------------------------------------------------------
(* Claims about the grouper and the block renderer.                        *)

Range(s) == { s[k] : k \in 1..Len(s) }

Occurrences(s, x) == Cardinality({ k \in 1..Len(s) : s[k] = x })

RECURSIVE SumOver(_, _, _)
SumOver(gp, keys, x) ==
    IF keys = {} THEN 0
    ELSE LET g == CHOOSE h \in keys : TRUE
         IN  Occurrences(gp[g], x) + SumOver(gp, keys \ {g}, x)

\* classify(path, modulePath) of the specification's data model.
ClassifyRule(p, m) ==
    IF m # <<>> /\ HasPrefix(p, m) THEN 2
    ELSE IF ContainsDot(p) THEN 1
    ELSE 0

\* The key of the j-th bucket in ascending order.
KeyAt(gp, j) ==
    CHOOSE g \in DOMAIN gp : Cardinality({ h \in DOMAIN gp : h < g }) = j - 1

\* The lines of a block that are no comment lines.
CodeLines(block) ==
    SelectSeq(SplitLines(block, <<>>), LAMBDA t : t.k # "//")

\* The lines of a block between its first and last line, cut at its blank
\* lines.
RECURSIVE Segments(_, _)
Segments(lines, cur) ==
    IF lines = <<>> THEN <<cur>>
    ELSE IF Head(lines).k = "" THEN <<cur>> \o Segments(Tail(lines), <<>>)
    ELSE Segments(Tail(lines), Append(cur, Head(lines)))

BlockSegments(block) ==
    LET ls == CodeLines(block)
    IN  Segments(SubSeq(ls, 2, Len(ls) - 1), <<>>)

\* C4: the imports with docs come before every grouped block, in the order
\* of their declaration, and no group holds one: in the command's print
\* order and in the library's groups.
C4_DocumentedFirstInOrder ==
    gpc = "done" =>
        /\ appDoc = SelectSeq(gis, HasDocs)
        /\ \A b \in 1..Len(appBlocks) : \A k \in 1..Len(appBlocks[b]) :
               NoDocs(appBlocks[b][k])
        /\ \A g \in DOMAIN ggp : \A k \in 1..Len(ggp[g]) : NoDocs(ggp[g][k])

\* C5: the grouping holds every extracted import exactly once, in the
\* bucket of its class; every bucket is in non-decreasing order of path; no
\* bucket is empty; and the block lists the buckets in ascending group-id,
\* exactly one blank line between two of them.
C5_GroupedSortedRendered ==
    gpc \in {"lib", "done"} =>
        /\ \A x \in Range(gis) : SumOver(ggp, DOMAIN ggp, x) = Occurrences(gis, x)
        /\ \A g \in DOMAIN ggp :
             /\ ggp[g] # <<>>
             /\ \A k \in 1..Len(ggp[g]) :
                  /\ ggp[g][k] \in Range(gis)
                  /\ g = ClassifyRule(ggp[g][k].Path, gmod)
             /\ \A k \in 1..(Len(ggp[g]) - 1) :
                  ~StrLess(ggp[g][k + 1].Path, ggp[g][k].Path)
        /\ (gis = <<>>) <=> (gblock = <<>>)
        /\ gis # <<>> =>
             LET segs == BlockSegments(gblock)
             IN  /\ Len(segs) = Cardinality(DOMAIN ggp)
                 /\ \A j \in 1..Len(segs) :
                      /\ Len(segs[j]) = Len(ggp[KeyAt(ggp, j)])
                      /\ \A k \in 1..Len(segs[j]) :
                           /\ segs[j][k].k = "spec"
                           /\ segs[j][k].v.Path = ggp[KeyAt(ggp, j)][k].Path
                           /\ segs[j][k].v.Name = ggp[KeyAt(ggp, j)][k].Name

\* C5 witness: three imports have been grouped and rendered as two
\* buckets, one of them with two imports that stood in the other order in
\* the source.
C5_Witness ==
    /\ gpc = "lib"
    /\ Len(gis) = 3
    /\ Cardinality(DOMAIN ggp) = 2
    /\ \E g \in DOMAIN ggp : \E i, j \in 1..Len(gis) :
         /\ Len(ggp[g]) = 2
         /\ StrLess(ggp[g][1].Path, ggp[g][2].Path)
         /\ i < j /\ gis[i] = ggp[g][2] /\ gis[j] = ggp[g][1]

----------------------------------------------------------------------------
(* Claims about the extractor.                                             *)

AttachedTo(d, c) ==
    \/ d.Doc.id = c.id
    \/ \E k \in 1..Len(d.Specs) : d.Specs[k].Doc.id = c.id \/ d.Specs[k].Comment.id = c.id

\* c is the doc of an import declaration, or the doc or the trailing comment
\* of one of its specs.
AttachedToImport(f, c) ==
    \E k \in 1..Len(f.Decls) : IsImportDecl(f.Decls[k]) /\ AttachedTo(f.Decls[k], c)

\* c lies in the text of an import declaration: attached to it, or on a
\* line between its keyword and its closing parenthesis.
PartOfImport(f, c) ==
    \/ AttachedToImport(f, c)
    \/ \E k \in 1..Len(f.Decls) :
         /\ IsImportDecl(f.Decls[k])
         /\ f.Decls[k].Line <= c.id /\ c.id <= f.Decls[k].End

DeclsKept(f, out) ==
    /\ \A k \in 1..Len(out.Decls) : ~IsImportDecl(out.Decls[k])
    /\ out.Decls = SelectSeq(f.Decls, NotImportDecl)

\* C10 as stated: no import declaration is left, the other declarations
\* are left in their order, and the comment list is left without exactly
\* the comment groups that were part of an import declaration.
C10_RemovesEveryPartOfImport ==
    rpc = "done" =>
        /\ DeclsKept(rtree, rout)
        /\ rout.Comments = SelectSeq(rtree.Comments, LAMBDA c : ~PartOfImport(rtree, c))

\* C10 amended: no import declaration is left, the other declarations are
\* left in their order, and the comment list is left without exactly the
\* comment groups attached to an import declaration (its doc, a spec's doc
\* or trailing comment); a comment inside an import declaration that is
\* attached to nothing stays.
C10_RemovesAttachedComments ==
    rpc = "done" =>
        /\ DeclsKept(rtree, rout)
        /\ rout.Comments = SelectSeq(rtree.Comments, LAMBDA c : ~AttachedToImport(rtree, c))

\* C10 witness: two import declarations in a row, the second one last,
\* with attached comments, have been removed.
C10_Witness ==
    /\ rpc = "done"
    /\ Len(rtree.Decls) = 2
    /\ IsImportDecl(rtree.Decls[1]) /\ IsImportDecl(rtree.Decls[2])
    /\ rtree.Decls[1].Doc # NilCG
    /\ rtree.Decls[2].Specs[1].Comment # NilCG
    /\ Len(rout.Comments) < Len(rtree.Comments)

----------------------------------------------------------------------------
(* Claims about the splice writer and the command.                         *)

\* The destination with the block put back at the place it was written to.
Spliced(text, at, gp) ==
    SubSeq(text, 1, at) \o WriteTo(gp) \o <<NL>> \o SubSeq(text, at + 1, Len(text))

\* C1: when Process has returned nil with a target line of 1 or more, every
\* token handed to Write is in the destination, in order, and none is left
\* in the buffer.
C1_AllBytesForwarded ==
    (cmd = "main" /\ pc = "processed" /\ lineInsert >= 1) =>
        /\ buf = <<>>
        /\ dst = IF nBlock = 0 THEN passed ELSE Spliced(passed, injAt, imports)

IndexOf(text, k) ==
    IF \E j \in 1..Len(text) : text[j].k = k
    THEN Min({ j \in 1..Len(text) : text[j].k = k })
    ELSE Len(text) + 1

\* C2: the block is written after the package clause and before the first
\* token of a declaration that is no import.
C2_BlockAtImportPosition ==
    (cmd = "main" /\ pc \in {"writing", "processed"} /\ nBlock >= 1) =>
        /\ injAt >= IndexOf(rendered, "package") + 1
        /\ injAt < IndexOf(rendered, "func")

\* C6: the second run of the command on the file the first run wrote
\* parses it and writes the same file.
C6_Idempotent ==
    (cmd = "main" /\ run = 2) =>
        /\ pc # "parse_failed"
        /\ pc = "done" => file = out1

NoImportDecl(text) ==
    LET f == ParseFile(text)
    IN  f.ok /\ \A k \in 1..Len(f.Decls) : ~IsImportDecl(f.Decls[k])

RenderUntouched(text) ==
    LET f == ParseFile(text) IN Render(f.Pkg, f.Decls, f.Comments)

C8_BlockOnceThenPassThrough ==
    /\ [](nBlock <= 1)
    /\ [][ (pc = "writing" /\ pc' = "writing" /\ nBlock = 1 /\ passed' # passed) =>
             /\ nBlock' = 1
             /\ buf = <<>> /\ buf' = <<>>
             /\ count' = count
             /\ dst' = dst \o SubSeq(passed', Len(passed) + 1, Len(passed')) ]_vars

\* C8 witness: the printer has written lines after the call of Write that
\* wrote the block.
C8_Witness ==
    /\ pc = "processed"
    /\ nBlock = 1
    /\ CountNL(passed) > count

\* C9: the file is created only in write-back mode, after formatting has
\* ended without error with the whole output in memory; after a syntax
\* error or a failed write while formatting nothing is written and the
\* file is as it was.
C9_WriteBackAfterFormat ==
    /\ (pc \in {"created", "copy_failed"} \/ file # orig) =>
         /\ writeBack
         /\ cmd = "main" => /\ stream = <<>> /\ passed = rendered
                            /\ Len(file) <= Len(dst)
                            /\ file = SubSeq(dst, 1, Len(file))
         /\ cmd = "app" => result = Formatted
    /\ pc \in {"parse_failed", "write_failed", "sort_failed"} =>
         /\ file = orig
         /\ stdout = <<>>

\* C9 witness: a run in write-back mode has replaced the file by the output
\* of a formatting that wrote the block.
C9_Witness ==
    /\ cmd = "main" /\ pc = "done" /\ writeBack
    /\ nBlock = 1
    /\ file = dst
    /\ file # orig

====
